---- MODULE Spec2Model ----
(***************************************************************************)
(* Incremental ledger pipeline of generar_reporte_incremental.py.          *)
(*                                                                         *)
(* The script is a straight-line batch program.  It is modelled as one     *)
(* process whose program counter pc moves through the points at which the  *)
(* script touches the file system: change detection, one step per pending  *)
(* file (read + move + in-memory manifest update), the ledger write, the   *)
(* manifest write and the report stage.  Between two runs the operator     *)
(* may drop files into data/ or take them away.                            *)
(*                                                                         *)
(* Amounts are kept in hundredths (1000.00 is 100000) so that the float    *)
(* values the script computes stay integers in the model.                  *)
(***************************************************************************)
EXTENDS Integers, Sequences, FiniteSets, TLC

\* ------------------------------------------------------------------ bounds
MaxRuns == 2     \* runs of the script in one behaviour

\* --------------------------------------------------------- generic helpers
\* A path holds no file (NoFile) or one file: File(x), whose content is
\* Content(File(x)) = x.
NoFile == <<>>
File(x) == <<x>>
Content(file) == file[1]

NaT == <<>>             \* pandas' null timestamp

Range(s) == {s[i] : i \in 1..Len(s)}

RECURSIVE Pick(_, _, _)
\* the subsequence of s at the positions in I, in order, from position i on
Pick(s, I, i) ==
    IF i > Len(s) THEN <<>>
    ELSE (IF i \in I THEN <<s[i]>> ELSE <<>>) \o Pick(s, I, i + 1)

RECURSIVE Flatten(_)
\* pd.concat(list_of_frames, ignore_index=True)
Flatten(dfs) ==
    IF dfs = <<>> THEN <<>> ELSE Head(dfs) \o Flatten(Tail(dfs))

RECURSIVE SumSeq(_)
SumSeq(s) == IF s = <<>> THEN 0 ELSE Head(s) + SumSeq(Tail(s))

Perms(S) ==
    {p \in [1..Cardinality(S) -> S] : \A i, j \in 1..Cardinality(S) : i # j => p[i] # p[j]}

\* ------------------------------------------------------ inbound file shape
Names == {"a.xls", "b.xls"}     \* candidate files of DATA_DIR.glob("*.xls")
MTimes == {1, 2}                \* values of int(p.stat().st_mtime)

RequiredCols ==
    {"Nro. Transacción", "Fecha", "Tipo Mov.", "Documento", "Movimiento", "Importe"}

\* header cells whose normalisation contains "tipo mov"
TipoMovCells == {"Tipo Mov.", "TIPO MOV."}

Digits == {"0", "1", "2", "3", "4", "5", "6", "7", "8", "9"}

DigitVal(c) ==
    CASE c = "0" -> 0 [] c = "1" -> 1 [] c = "2" -> 2 [] c = "3" -> 3 [] c = "4" -> 4
      [] c = "5" -> 5 [] c = "6" -> 6 [] c = "7" -> 7 [] c = "8" -> 8 [] c = "9" -> 9

RECURSIVE StrReplace(_, _, _)
\* str.replace(old, new, regex=False) on a string kept as a sequence of
\* one-character strings; new is a sequence (empty to delete)
StrReplace(s, old, new) ==
    IF s = <<>> THEN <<>>
    ELSE (IF Head(s) = old THEN new ELSE <<Head(s)>>) \o StrReplace(Tail(s), old, new)

RECURSIVE DigitsValue(_)
DigitsValue(s) ==
    IF s = <<>> THEN 0 ELSE DigitsValue(SubSeq(s, 1, Len(s) - 1)) * 10 + DigitVal(s[Len(s)])

ValueError == [ok |-> FALSE, val |-> 0]

\* float(s) for s over digits and "."; the value in hundredths.  Strings of
\* the model carry at most two decimals.
ToFloat(s) ==
    LET dots == {i \in 1..Len(s) : s[i] = "."}
        ok   == /\ \A i \in 1..Len(s) : s[i] \in Digits \cup {"."}
                /\ Cardinality(dots) <= 1
                /\ \E i \in 1..Len(s) : s[i] \in Digits
    IN  IF ~ok THEN ValueError
        ELSE IF dots = {} THEN [ok |-> TRUE, val |-> DigitsValue(s) * 100]
        ELSE LET d    == CHOOSE i \in dots : TRUE
                 ip   == SubSeq(s, 1, d - 1)
                 fp   == SubSeq(s, d + 1, Len(s))
                 frac == IF Len(fp) = 0 THEN 0
                         ELSE IF Len(fp) = 1 THEN DigitsValue(fp) * 10
                         ELSE DigitsValue(SubSeq(fp, 1, 2))
             IN  [ok |-> TRUE, val |-> DigitsValue(ip) * 100 + frac]

\* df["Importe"].astype(str).str.replace(".", "").str.replace(",", ".").astype(float)
ParseImporte(raw) == ToFloat(StrReplace(StrReplace(raw, ".", <<>>), ",", <<".">>))

\* pd.to_datetime(..., dayfirst=True, errors="coerce"): a date <<y, m, d>> or NaT
ParseFecha(raw) == IF Len(raw) = 3 THEN raw ELSE NaT

\* Fecha.dt.to_period("M")
ToPeriodM(f) == IF f = NaT THEN NaT ELSE <<f[1], f[2]>>

RawRow(n, f, t, d, m, i) ==
    [nro |-> n, fecha |-> f, tipo |-> t, doc |-> d, mov |-> m, importe |-> i]

HeaderOk  == RequiredCols
HeaderBad == {"Nro. Transacción", "Fecha", "TIPO MOV.", "Documento", "Movimiento", "Importe"}

\* The spreadsheets the operator may drop into data/.
Contents == {"ok1", "ok2", "nohdr", "badamt", "nocol", "empty"}

FileOf(c) ==
    CASE c = "ok1" ->
           [cells |-> HeaderOk,
            rows  |-> << RawRow(1, <<2025, 7, 8>>, "Carga saldo desde MODO", 7, "MODO",
                                <<"1", ".", "0", "0", "0">>) >>]
      [] c = "ok2" ->
           [cells |-> HeaderOk,
            rows  |-> << RawRow(1, <<2025, 7, 8>>, "Carga saldo desde MODO", 7, "MODO",
                                <<"1", ".", "2", "0", "0">>),
                         RawRow(2, <<2025, 8, 1>>, "Jugada", 7, "Jugada - Quini 6",
                                <<"5", "0", ",", "5">>) >>]
      [] c = "nohdr" ->
           [cells |-> {"Reporte", "Saldo"}, rows |-> <<>>]
      [] c = "empty" ->
           [cells |-> HeaderOk, rows |-> <<>>]
      [] c = "badamt" ->
           [cells |-> HeaderOk,
            rows  |-> << RawRow(3, <<2025, 7, 9>>, "Jugada", 8, "Jugada - Loto",
                                <<"x">>) >>]
      [] c = "nocol" ->
           [cells |-> HeaderBad,
            rows  |-> << RawRow(3, <<2025, 7, 9>>, "Jugada", 8, "Jugada - Loto",
                                <<"7", "0">>) >>]

\* ------------------------------------------------------- leer_movimientos
ParsedRow(r) ==
    [nro |-> r.nro, fecha |-> ParseFecha(r.fecha), tipo |-> r.tipo, doc |-> r.doc,
     mov |-> r.mov, importe |-> ParseImporte(r.importe).val]

\* None when no row holds a "tipo mov" cell; ValueError when usecols names a
\* column the header lacks or an amount does not convert; else the frame.
leer_movimientos(c) ==
    LET file == FileOf(c) IN
    IF file.cells \cap TipoMovCells = {} THEN [kind |-> "None"]
    ELSE IF ~(RequiredCols \subseteq file.cells) THEN [kind |-> "raise"]
    ELSE IF \E i \in 1..Len(file.rows) : ~ParseImporte(file.rows[i].importe).ok
         THEN [kind |-> "raise"]
    ELSE [kind |-> "df", rows |-> [i \in 1..Len(file.rows) |-> ParsedRow(file.rows[i])]]

\* what leer_movimientos gives for each spreadsheet of the model
Leido == [c \in Contents |-> leer_movimientos(c)]

\* ------------------------------------------------------------- manifest
\* pd.read_csv(MANIFEST_FILE): rows labelled 0..n-1; an absent file gives
\* the empty frame
LoadManifest(mf) ==
    IF mf = NoFile THEN <<>>
    ELSE [i \in 1..Len(Content(mf)) |->
            [idx |-> i - 1, archivo |-> Content(mf)[i].archivo,
             mod_time |-> Content(mf)[i].mod_time]]

\* manifest.to_csv(MANIFEST_FILE, index=False)
DumpManifest(m) ==
    File([i \in 1..Len(m) |-> [archivo |-> m[i].archivo, mod_time |-> m[i].mod_time]])

IsPendingNewer(m, name, mt) ==
    LET fila == SelectSeq(m, LAMBDA r : r.archivo = name)
    IN  fila = <<>> \/ fila[1].mod_time < mt

\* fila = manifest.loc[manifest["archivo"] == f.name]
\* fila.empty or fila.iloc[0]["mod_time"] != mt
IsPending(m, name, mt) ==
    LET fila == SelectSeq(m, LAMBDA r : r.archivo = name)
    IN  fila = <<>> \/ fila[1].mod_time # mt

\* manifest = manifest[manifest["archivo"] != f.name]
\* manifest.loc[len(manifest)] = [f.name, mt]
ManifestAppendOnly(m, name, mt) ==
    Append(m, [idx |-> Len(m), archivo |-> name, mod_time |-> mt])

\* The filter keeps the surviving rows' labels, so the label len(manifest)
\* may already belong to a row, which .loc then overwrites.
ManifestUpdate(m, name, mt) ==
    LET kept  == SelectSeq(m, LAMBDA r : r.archivo # name)
        label == Len(kept)
        row   == [idx |-> label, archivo |-> name, mod_time |-> mt]
    IN  IF \E i \in 1..Len(kept) : kept[i].idx = label
        THEN [i \in 1..Len(kept) |-> IF kept[i].idx = label THEN row ELSE kept[i]]
        ELSE Append(kept, row)

\* ---------------------------------------------------------------- ledger
DropDuplicatesFirst(s) ==
    Pick(s, {i \in 1..Len(s) : \A j \in 1..(i - 1) : s[j].nro # s[i].nro}, 1)

\* drop_duplicates(subset=["Nro. Transacción"], keep="last")
DropDuplicatesLast(s) ==
    Pick(s, {i \in 1..Len(s) : \A j \in (i + 1)..Len(s) : s[j].nro # s[i].nro}, 1)

DataTotalNewOnly(master, nuevos) == Flatten(nuevos)

\* lines 149-156: the frame written to MASTER_FILE
DataTotal(master, nuevos) ==
    LET df_new == Flatten(nuevos)
    IN  IF master # NoFile THEN DropDuplicatesLast(Content(master) \o df_new) ELSE df_new

ConcatNeverRaises(nuevos) == FALSE

\* pd.concat([]) raises "No objects to concatenate"
ConcatRaises(nuevos) == nuevos = <<>>

\* ------------------------------------------------------------ aggregates
\* apuestas: Tipo Mov. contains "apuesta" or "jugada", case-insensitive
IsApuesta(t) == t \in {"Jugada", "Apuesta"}

\* mask_carga: normalised Tipo Mov. matches ^carga\s+saldo\s+desde\s*(?:modo|tj)\b
IsCarga(t) == t \in {"Carga saldo desde MODO", "Carga saldo desde TJ"}

Docs(s) == {s[i].doc : i \in 1..Len(s)}

Importes(s) == [i \in 1..Len(s) |-> s[i].importe]

\* the tables of the report stage that depend on the ledger alone
Aggregate(data) ==
    LET cargas   == SelectSeq(data, LAMBDA r : IsCarga(r.tipo))
        apuestas == SelectSeq(data, LAMBDA r : IsApuesta(r.tipo))
    IN  [movimientos  |-> Len(data),
         monto_cargas |-> SumSeq(Importes(cargas)),
         n_cargas     |-> Len(cargas),
         recaudacion  |-> SumSeq(Importes(apuestas)),
         cant_unicos_total    |-> Cardinality(Docs(data)),
         cant_unicos_apuestan |-> Cardinality(Docs(apuestas)),
         cant_recargas_unicas |-> Cardinality(Docs(cargas))]

\* ------------------------------------------------------------ text rules
\* A text is a sequence of characters; NaN is the missing cell.
NaN == << "<NaN>" >>

UpperCase == <<"A", "B", "C", "D", "E", "G", "I", "J", "L", "M", "N", "O", "P", "R", "S", "T", "Ó">>
LowerCase == <<"a", "b", "c", "d", "e", "g", "i", "j", "l", "m", "n", "o", "p", "r", "s", "t", "ó">>

\* str.lower(), character by character
Lower(c) ==
    IF \E i \in 1..Len(UpperCase) : UpperCase[i] = c
    THEN LowerCase[CHOOSE i \in 1..Len(UpperCase) : UpperCase[i] = c]
    ELSE c

LowerStr(s) == [i \in 1..Len(s) |-> Lower(s[i])]

\* unicodedata.combining(c) # 0
Combining(c) == c = "COMBINING ACUTE ACCENT"

\* unicodedata.normalize("NFKD", c) of one character
NFKD(c) ==
    CASE c = "ó" -> <<"o", "COMBINING ACUTE ACCENT">>
      [] c = "Ó" -> <<"O", "COMBINING ACUTE ACCENT">>
      [] OTHER   -> <<c>>

\* the accents removed, the case kept
normalizar_sin_lower(txt) ==
    IF txt = NaN THEN <<>>
    ELSE SelectSeq(Flatten([i \in 1..Len(txt) |-> NFKD(txt[i])]),
                   LAMBDA c : ~Combining(c))

\* lines 52-56
normalizar(txt) ==
    IF txt = NaN THEN <<>>
    ELSE LowerStr(SelectSeq(Flatten([i \in 1..Len(txt) |-> NFKD(txt[i])]),
                            LAMBDA c : ~Combining(c)))

\* sub in s
Contains(s, sub) ==
    \E i \in 0..(Len(s) - Len(sub)) : SubSeq(s, i + 1, i + Len(sub)) = sub

StartsWith(s, p) == Len(p) <= Len(s) /\ SubSeq(s, 1, Len(p)) = p

Drop(s, n) == SubSeq(s, n + 1, Len(s))

RECURSIVE SkipSpaces(_)
\* what is left of s after a greedy \s*
SkipSpaces(s) == IF s # <<>> /\ Head(s) = " " THEN SkipSpaces(Tail(s)) ELSE s

\* \w of the regular expressions, on the characters of the model
WordChar(c) == c # " " /\ c # "-" /\ c # "."

w_modo    == <<"m", "o", "d", "o">>
w_tj      == <<"t", "j">>
w_tarjeta == <<"t", "a", "r", "j", "e", "t", "a">>
w_agencia == <<"a", "g", "e", "n", "c", "i", "a">>
w_pos     == <<"p", "o", "s">>
w_caja    == <<"c", "a", "j", "a">>
w_carga   == <<"c", "a", "r", "g", "a">>
w_saldo   == <<"s", "a", "l", "d", "o">>
w_desde   == <<"d", "e", "s", "d", "e">>
w_deposito  == <<"d", "e", "p", "o", "s", "i", "t", "o">>
w_depo_sito == <<"d", "e", "p", "ó", "s", "i", "t", "o">>

\* cells of the exports, as typed
r_MODO     == <<"M", "O", "D", "O">>
r_TJ       == <<"T", "J">>
r_Tarjeta  == <<"T", "a", "r", "j", "e", "t", "a">>
r_Agencia  == <<"A", "g", "e", "n", "c", "i", "a">>
r_Caja     == <<"C", "a", "j", "a">>
r_Bono     == <<"B", "o", "n", "o">>
r_Deposito == <<"D", "e", "p", "ó", "s", "i", "t", "o">>
r_Carga    == <<"C", "a", "r", "g", "a">>
r_CargaSaldoDesde ==
    r_Carga \o <<" ", "s", "a", "l", "d", "o", " ", "d", "e", "s", "d", "e">>

\* generar_reportev2.py lines 68-70: two categories only
clasificar_canal_v2(movimiento) ==
    IF Contains(normalizar(movimiento), w_modo) THEN "MODO" ELSE "Retail"

\* generar_reporte_incremental.py lines 83-104
clasificar_canal(movimiento, tipo_mov) ==
    LET mov_norm  == normalizar(movimiento)
        tipo_norm == normalizar(tipo_mov)
    IN  IF Contains(mov_norm, w_modo) \/ Contains(tipo_norm, w_modo) THEN "MODO"
        ELSE IF \/ Contains(mov_norm, w_tj) \/ Contains(mov_norm, w_tarjeta)
                \/ Contains(tipo_norm, w_tj) \/ Contains(tipo_norm, w_tarjeta)
             THEN "Retail"
        ELSE IF \E kw \in {w_agencia, w_pos, w_caja} : Contains(mov_norm, kw)
             THEN "Retail"
        ELSE "Otro"

\* any label with the word "carga" taken for a deposit
mask_carga_cualquiera(tipo_mov) == Contains(normalizar(tipo_mov), w_carga)

\* tm_norm.str.match(r"^carga\s+saldo\s+desde\s*(?:modo|tj)\b")
mask_carga(tipo_mov) ==
    LET s0 == normalizar(tipo_mov)
        \* the text after word w and at least one blank, or NaN when s does
        \* not start so
        after(s, w) == IF StartsWith(s, w) /\ Drop(s, Len(w)) # <<>>
                          /\ Head(Drop(s, Len(w))) = " "
                       THEN SkipSpaces(Drop(s, Len(w))) ELSE NaN
        s1 == after(s0, w_carga)
        s2 == IF s1 = NaN THEN NaN ELSE after(s1, w_saldo)
        s3 == IF s2 = NaN THEN NaN
              ELSE IF StartsWith(s2, w_desde) THEN SkipSpaces(Drop(s2, Len(w_desde)))
              ELSE NaN
        word(s, w) == /\ StartsWith(s, w)
                      /\ (Len(s) > Len(w) => ~WordChar(s[Len(w) + 1]))
    IN  s3 # NaN /\ (word(s3, w_modo) \/ word(s3, w_tj))

\* generar_reportev2.py lines 147-149:
\* str.contains(r"carga|dep(?:o|ó)sito", case=False)
mask_carga_v2(tipo_mov) ==
    /\ tipo_mov # NaN
    /\ \E w \in {w_carga, w_deposito, w_depo_sito} : Contains(LowerStr(tipo_mov), w)

\* ------------------------------------------------- timestamps and views
\* days of a common year before the first of each month
DaysBefore == <<0, 31, 59, 90, 120, 151, 181, 212, 243, 273, 304, 334>>

DaysInYear == 365

\* a date <<y, m, d>> as a day count, to compare and to add days (leap days
\* left out: the dates of the model are months apart or within 2025)
Ordinal(f) == (f[1] - 2025) * DaysInYear + DaysBefore[f[2]] + f[3]

\* not later than
Le(a, b) == a # NaT /\ b # NaT /\ Ordinal(a) <= Ordinal(b)

\* pandas comparisons: False when either side is NaT
Lt(a, b) == a # NaT /\ b # NaT /\ Ordinal(a) < Ordinal(b)
Ge(a, b) == a # NaT /\ b # NaT /\ Ordinal(a) >= Ordinal(b)
Eq(a, b) == a # NaT /\ b # NaT /\ a = b

FECHA_LANZ_JUEGOS == <<2025, 4, 14>>
FECHA_MODO_FULL   == <<2025, 7, 7>>

DiaSiguiente == 1       \* pd.Timedelta(days=1)
MesSiguiente == 30      \* pd.Timedelta(days=30)

\* the cell text behind the labels the ledger rows of the model carry
Spell(label) ==
    CASE label = "Carga saldo desde MODO" -> r_CargaSaldoDesde \o <<" ">> \o r_MODO
      [] label = "Carga saldo desde TJ"   -> r_CargaSaldoDesde \o <<" ">> \o r_TJ
      [] label = "MODO"                   -> r_MODO
      [] label = "TJ"                     -> r_TJ

\* the rows of a ledger (a set of rows here) by view
apuestas_de(data) == {r \in data : IsApuesta(r.tipo)}
cargas_de(data)   == {r \in data : IsCarga(r.tipo)}
CanalDe(r)        == clasificar_canal(Spell(r.mov), Spell(r.tipo))
modo_all(data)    == {r \in cargas_de(data) : CanalDe(r) = "MODO"}

DocsOf(rows) == {r.doc : r \in rows}

RECURSIVE SumOf(_)
SumOf(rows) ==
    IF rows = {} THEN 0
    ELSE LET r == CHOOSE x \in rows : TRUE IN r.importe + SumOf(rows \ {r})

\* sort_values("Fecha").groupby("Documento").first(): per account the first
\* non-null Fecha in ascending order, NaT when it has none
FirstFecha(rows, doc) ==
    LET fs == {r.fecha : r \in {x \in rows : x.doc = doc}} \ {NaT}
    IN  IF fs = {} THEN NaT
        ELSE CHOOSE f \in fs : \A g \in fs : Ordinal(f) <= Ordinal(g)

\* Fecha > Fecha_Corte and Fecha <= Fecha_Corte + Timedelta(days)
DentroDeCerrado(f, corte, dias) ==
    /\ Ge(f, corte)
    /\ Ordinal(f) <= Ordinal(corte) + dias

DentroDe(f, corte, dias) ==
    /\ Lt(corte, f)
    /\ Ordinal(f) <= Ordinal(corte) + dias

\* lines 328-360: one row per account with a MODO deposit
retencion_modo(data) ==
    { LET corte  == FirstFecha(modo_all(data), d)
          primer == FirstFecha(data, d)
          bets   == {r.fecha : r \in {x \in apuestas_de(data) : x.doc = d}}
      IN  [Documento       |-> d,
           Fecha_Corte     |-> corte,
           Fecha_PrimerMov |-> primer,
           Es_Nuevo        |-> Eq(primer, corte),
           Jugo_Posterior  |-> \E f \in bets : Lt(corte, f),
           Jugo_Dia_Sig    |-> \E f \in bets : DentroDe(f, corte, DiaSiguiente),
           Jugo_Mes_Sig    |-> \E f \in bets : DentroDe(f, corte, MesSiguiente)]
      : d \in DocsOf(modo_all(data)) }

\* accounts with a wager on or after corte
PrimerosJugadoresDesde(data, corte) ==
    {d \in DocsOf(apuestas_de(data)) : Ge(FirstFecha(apuestas_de(data), d), corte)}

\* apuestas.loc[apuestas["Fecha"] >= corte, "Documento"]
JugadoresDesde(data, corte) ==
    DocsOf({r \in apuestas_de(data) : Ge(r.fecha, corte)})

\* lines 383-420, without the per-game counter
usuarios_hitos(data) ==
    LET modo_post_docs == DocsOf({r \in cargas_de(data) :
                                    Ge(r.fecha, FECHA_MODO_FULL) /\ CanalDe(r) = "MODO"})
    IN  [nuevos_desde_juegos      |->
             Cardinality({d \in DocsOf(data) : Ge(FirstFecha(data, d), FECHA_LANZ_JUEGOS)}),
         jugadores_desde_juegos   |-> Cardinality(JugadoresDesde(data, FECHA_LANZ_JUEGOS)),
         usuarios_modo_desde      |-> Cardinality(modo_post_docs),
         jugadores_post_modo      |-> Cardinality(JugadoresDesde(data, FECHA_MODO_FULL)),
         jugadores_modo_y_jugaron |->
             Cardinality(modo_post_docs \cap JugadoresDesde(data, FECHA_MODO_FULL))]

\* lines 423-432
comparativa_modo(data) ==
    [dep_before |-> SumOf({r \in cargas_de(data) : Lt(r.fecha, FECHA_MODO_FULL)}),
     dep_after  |-> SumOf({r \in cargas_de(data) : Ge(r.fecha, FECHA_MODO_FULL)}),
     rec_before |-> SumOf({r \in apuestas_de(data) : Lt(r.fecha, FECHA_MODO_FULL)}),
     rec_after  |-> SumOf({r \in apuestas_de(data) : Ge(r.fecha, FECHA_MODO_FULL)})]

\* ------------------------------------------------------ the user roster
\* USUARIOS_FILE: it may not exist, pd.read_excel may raise on it, or it
\* yields rows [DNI, Fecha_Alta], one per DNI after drop_duplicates
SinPadron     == [existe |-> FALSE, legible |-> FALSE, filas |-> {}]
PadronIlegible == [existe |-> TRUE, legible |-> FALSE, filas |-> {}]
Padron(filas) == [existe |-> TRUE, legible |-> TRUE, filas |-> filas]

\* lines 643-679: the frame usuarios and whether it has its columns
usuarios_de(padron) ==
    IF padron.existe /\ padron.legible
    THEN [columnas |-> TRUE, filas |-> padron.filas]
    ELSE [columnas |-> FALSE, filas |-> {}]

RetenidoSoloApuesta(data, d) ==
    LET primera == FirstFecha(apuestas_de(data), d)
    IN  \E r \in apuestas_de(data) : r.doc = d /\ Lt(primera, r.fecha)

\* lines 704-719: a deposit after the first wager and a wager after it
Retenido(data, d) ==
    LET primera == FirstFecha(apuestas_de(data), d)
    IN  /\ \E r \in cargas_de(data) : r.doc = d /\ Lt(primera, r.fecha)
        /\ \E r \in apuestas_de(data) : r.doc = d /\ Lt(primera, r.fecha)

\* lines 692-719: the roster accounts with a dated wager
df_funnel(data, filas) ==
    {[Documento   |-> u.DNI,
      Cohorte_Mes |-> ToPeriodM(u.Fecha_Alta),
      Retenido    |-> Retenido(data, u.DNI)] :
        u \in {x \in filas : FirstFecha(apuestas_de(data), x.DNI) # NaT}}

\* lines 722-731: groupby("Cohorte_Mes"), which drops the null key
cohort_summary(data, filas) ==
    LET funnel == df_funnel(data, filas)
    IN  {[Cohorte_Mes           |-> m,
          Total_Nuevos_Usuarios |->
              Cardinality({x.Documento : x \in {y \in funnel : y.Cohorte_Mes = m}}),
          Retenidos_30_Dias     |->
              Cardinality({y \in funnel : y.Cohorte_Mes = m /\ y.Retenido})] :
            m \in {x.Cohorte_Mes : x \in funnel} \ {NaT}}

\* lines 519-584, 689-779: the files of csv_dashboard/ the run writes that
\* depend on the roster, and two that do not
csv_escritos(data, padron) ==
    LET usuarios == usuarios_de(padron)
    IN  {"movimientos_modo.csv", "apuestas_diario.csv"}
        \cup (IF padron.existe /\ padron.legible
              THEN {"reactivados_modo.csv", "nuevos_modo.csv"} ELSE {})
        \cup (IF usuarios.filas # {} /\ usuarios.columnas
              THEN {"retencion_cohorts.csv"} ELSE {})
        \cup (IF padron.existe /\ usuarios.columnas
              THEN {"apuestas_con_usuarios.csv"} ELSE {})

\* lines 614-640: the activity KPIs appended to resumen_kpis, when the
\* roster was read into usuarios (one row per DNI); without it the block is
\* skipped or ends in the NameError it catches
kpis_actividad(data, padron) ==
    IF padron.existe /\ padron.legible
    THEN LET total_registrados == Cardinality(padron.filas)
             total_activos     == Cardinality(DocsOf(data))
         IN  File([total_registrados |-> total_registrados,
                   total_activos     |-> total_activos,
                   total_inactivos   |-> total_registrados - total_activos])
    ELSE NoFile

\* ----------------------------------------------------------------- state
VARIABLES
    dataDir,       \* data/: the names present -> [mt, content]
    procDir,       \* processed/<period>/<name>: set of [dir, name, content]
    masterFile,    \* datasets/movimientos.parquet: NoFile or the rows
    manifestFile,  \* datasets/manifest.csv: NoFile or rows [archivo, mod_time]
    csvDir,        \* csv_dashboard/: NoFile or the tables last written
    pc,            \* where the script is; "idle" between runs
    manifest,      \* the in-memory manifest frame (rows carry their label idx)
    pendientes,    \* the list of <<name, mt>> of the run
    k,             \* position of the per-file loop in pendientes
    nuevos_df,     \* frames parsed so far in the run
    exit,          \* how the last run ended: "none", "ok" or "error"
    runs,          \* runs started so far
    hist,          \* what the last run saw and did (history, not program state);
                   \* all but the skipped files and the ingested ones is
                   \* forgotten at the operator's next step
    arg,           \* the input of the function a specification studies alone
    res            \* NoFile, or its result

vars == <<dataDir, procDir, masterFile, manifestFile, csvDir, pc, manifest,
          pendientes, k, nuevos_df, exit, runs, hist, arg, res>>

\* the variables of the ingestion pipeline, and those of a function studied alone
pipeline == <<dataDir, procDir, masterFile, manifestFile, csvDir, pc, manifest,
              pendientes, k, nuevos_df, exit, runs, hist>>

alone == <<arg, res>>

disk == <<dataDir, procDir, masterFile, manifestFile, csvDir>>

NoHist ==
    [live      |-> FALSE,   \* TRUE from the start of a run to the operator's next step
     ledger0   |-> NoFile,  \* the three outputs as the run found them
     manifest0 |-> NoFile,
     csv0      |-> NoFile,
     pend      |-> <<>>,    \* [name, mt, content] of the pending files, in order
     retry     |-> {},      \* files the previous run skipped, found unchanged
     parsed    |-> <<>>,    \* files read into a frame and moved, in order
     skipped   |-> {},      \* files leer_movimientos returned None for
     raised    |-> {},      \* the file whose processing raised
     wrote     |-> {},      \* which of "ledger", "manifest" the run has written
     ingested  |-> {},      \* per name, the last file merged into the ledger
     before    |-> {}]      \* ingested, as it was when the run started

Forget(h) == [NoHist EXCEPT !.skipped = h.skipped, !.ingested = h.ingested]

\* nothing ingested yet, no run under way
Fresh ==
    /\ dataDir = <<>>
    /\ procDir = {}
    /\ masterFile = NoFile
    /\ manifestFile = NoFile
    /\ csvDir = NoFile
    /\ pc = "idle"
    /\ manifest = <<>>
    /\ pendientes = <<>>
    /\ k = 1
    /\ nuevos_df = <<>>
    /\ exit = "none"
    /\ runs = 0
    /\ hist = NoHist

Init ==
    /\ Fresh
    /\ arg = <<>>
    /\ res = NoFile

\* ------------------------------------------------------------ environment
\* the operator drops (or replaces, or touches) a spreadsheet in data/
Arrive(f, mt, c) ==
    /\ UNCHANGED alone
    /\ pc = "idle"
    /\ runs < MaxRuns
    /\ f \in DOMAIN dataDir => dataDir[f] # [mt |-> mt, content |-> c]
    /\ dataDir' = [g \in DOMAIN dataDir \cup {f} |->
                      IF g = f THEN [mt |-> mt, content |-> c] ELSE dataDir[g]]
    /\ hist' = Forget(hist)
    /\ UNCHANGED <<procDir, masterFile, manifestFile, csvDir, pc, manifest,
                   pendientes, k, nuevos_df, exit, runs>>

\* the operator takes a spreadsheet out of data/
Remove(f) ==
    /\ UNCHANGED alone
    /\ pc = "idle"
    /\ runs < MaxRuns
    /\ f \in DOMAIN dataDir
    /\ dataDir' = [g \in DOMAIN dataDir \ {f} |-> dataDir[g]]
    /\ hist' = Forget(hist)
    /\ UNCHANGED <<procDir, masterFile, manifestFile, csvDir, pc, manifest,
                   pendientes, k, nuevos_df, exit, runs>>

\* ------------------------------------------------------------- the script
\* the process ends: its memory is gone, the exit status stays
EndRun(status) ==
    /\ pc' = "idle"
    /\ exit' = status
    /\ manifest' = <<>>
    /\ pendientes' = <<>>
    /\ k' = 1
    /\ nuevos_df' = <<>>

NoPendingIsError(master) == "error"

\* on an empty pending list: RuntimeError without a ledger, else the report
NoPendingOutcome(master) == IF master = NoFile THEN "error" ELSE "report"

\* lines 113-128 and the branch of lines 131/160-163: load the manifest, list
\* data/ and keep the files that are new or changed
Scan ==
    /\ LET m       == LoadManifest(manifestFile)
           pendSet == {f \in DOMAIN dataDir : IsPending(m, f, dataDir[f].mt)}
       IN  \E order \in Perms(pendSet) :
             LET pend == [i \in 1..Cardinality(pendSet) |->
                            <<order[i], dataDir[order[i]].mt>>]
             IN  /\ hist' = [NoHist EXCEPT
                      !.live = TRUE,
                      !.ledger0 = masterFile,
                      !.manifest0 = manifestFile,
                      !.csv0 = csvDir,
                      !.pend = [i \in 1..Len(pend) |->
                                  [name |-> pend[i][1], mt |-> pend[i][2],
                                   content |-> dataDir[pend[i][1]].content]],
                      !.ingested = hist.ingested,
                      !.before = hist.ingested,
                      !.retry = {s \in hist.skipped :
                                   /\ s.name \in DOMAIN dataDir
                                   /\ dataDir[s.name].mt = s.mt}]
                 /\ IF pend = <<>> /\ NoPendingOutcome(masterFile) = "error"
                    THEN EndRun("error")
                    ELSE /\ pc' = IF pend # <<>> THEN "loop" ELSE "report"
                         /\ pendientes' = pend
                         /\ manifest' = m
                         /\ k' = 1
                         /\ nuevos_df' = <<>>
                         /\ exit' = "none"
    /\ UNCHANGED disk

\* the operator starts the script
Detect ==
    /\ UNCHANGED alone
    /\ pc = "idle"
    /\ runs < MaxRuns
    /\ runs' = runs + 1
    /\ Scan

\* a copy in place of the move: the source stays in data/
MoveCopy(dir, name, content) ==
    /\ dataDir' = dataDir
    /\ procDir' = {p \in procDir : ~(p.dir = dir /\ p.name = name)}
                    \cup {[dir |-> dir, name |-> name, content |-> content]}

\* shutil.move(str(f), dest_dir / f.name): a rename, replacing a file of that
\* name already in the destination folder
Move(dir, name, content) ==
    /\ dataDir' = [g \in DOMAIN dataDir \ {name} |-> dataDir[g]]
    /\ procDir' = {p \in procDir : ~(p.dir = dir /\ p.name = name)}
                    \cup {[dir |-> dir, name |-> name, content |-> content]}

\* lines 135 and 144-146: the manifest after a file has been read
ManifestAfterAlways(m, r, name, mt) == ManifestUpdate(m, name, mt)
ManifestAfter(m, r, name, mt) ==
    IF r.kind = "df" THEN ManifestUpdate(m, name, mt) ELSE m

\* lines 132-146: one iteration of the per-file loop
ProcessFile ==
    /\ UNCHANGED alone
    /\ pc = "loop"
    /\ k <= Len(pendientes)
    /\ LET f   == pendientes[k][1]
           mt  == pendientes[k][2]
           c   == dataDir[f].content
           r   == Leido[c]
           rec == [name |-> f, mt |-> mt, content |-> c]
           next == IF k + 1 > Len(pendientes) THEN "merge" ELSE "loop"
       IN  CASE r.kind = "raise" ->
                  \* the exception leaves leer_movimientos and ends the script
                  /\ EndRun("error")
                  /\ hist' = [hist EXCEPT !.raised = @ \cup {rec}]
                  /\ UNCHANGED <<disk, runs>>
             [] r.kind = "None" ->
                  /\ pc' = next
                  /\ k' = k + 1
                  /\ manifest' = ManifestAfter(manifest, r, f, mt)
                  /\ hist' = [hist EXCEPT !.skipped = @ \cup {rec}]
                  /\ UNCHANGED <<disk, pendientes, nuevos_df, exit, runs>>
             [] r.kind = "df" /\ r.rows = <<>> ->
                  \* df_tmp['Fecha'].dt.to_period('M').iloc[0]: IndexError
                  /\ EndRun("error")
                  /\ hist' = [hist EXCEPT !.raised = @ \cup {rec}]
                  /\ UNCHANGED <<disk, runs>>
             [] r.kind = "df" /\ r.rows # <<>> ->
                  /\ nuevos_df' = Append(nuevos_df, r.rows)
                  /\ Move(ToPeriodM(r.rows[1].fecha), f, c)
                  /\ manifest' = ManifestAfter(manifest, r, f, mt)
                  /\ pc' = next
                  /\ k' = k + 1
                  /\ hist' = [hist EXCEPT !.parsed = Append(@, rec)]
                  /\ UNCHANGED <<masterFile, manifestFile, csvDir, pendientes, exit, runs>>

\* lines 149-157: concat, dedup against the ledger, data_total.to_parquet
Merge ==
    /\ UNCHANGED alone
    /\ pc = "merge"
    /\ IF ConcatRaises(nuevos_df)
       THEN /\ EndRun("error")
            /\ UNCHANGED <<disk, runs, hist>>
       ELSE /\ masterFile' = File(DataTotal(masterFile, nuevos_df))
            /\ pc' = "manifest_csv"
            /\ hist' = [hist EXCEPT
                  !.wrote = @ \cup {"ledger"},
                  !.ingested = {e \in @ : \A p \in Range(hist.parsed) : p.name # e.name}
                                 \cup Range(hist.parsed)]
            /\ UNCHANGED <<dataDir, procDir, manifestFile, csvDir, manifest, pendientes,
                           k, nuevos_df, exit, runs>>

\* line 158: manifest.to_csv
WriteManifest ==
    /\ UNCHANGED alone
    /\ pc = "manifest_csv"
    /\ manifestFile' = DumpManifest(manifest)
    /\ pc' = "report"
    /\ hist' = [hist EXCEPT !.wrote = @ \cup {"manifest"}]
    /\ UNCHANGED <<dataDir, procDir, masterFile, csvDir, manifest, pendientes, k,
                   nuevos_df, exit, runs>>

\* lines 165-1067: read the ledger, derive the tables, write them
Report ==
    /\ UNCHANGED alone
    /\ pc = "report"
    /\ csvDir' = File(Aggregate(Content(masterFile)))
    /\ EndRun("ok")
    /\ UNCHANGED <<dataDir, procDir, masterFile, manifestFile, runs, hist>>

Next ==
    \/ \E f \in Names, mt \in MTimes, c \in Contents : Arrive(f, mt, c)
    \/ \E f \in Names : Remove(f)
    \/ Detect
    \/ ProcessFile
    \/ Merge
    \/ WriteManifest
    \/ Report

Spec == Init /\ [][Next]_vars

\* ---------------------------------------------- a later starting point
\* The installation after a first run that ingested a.xls ("ok1") and then
\* b.xls ("ok2"), both with modified time 1: a state of Spec.
WarmFiles ==
    << [name |-> "a.xls", mt |-> 1, content |-> "ok1"],
       [name |-> "b.xls", mt |-> 1, content |-> "ok2"] >>

WarmLedger ==
    DataTotal(NoFile, [i \in 1..Len(WarmFiles) |-> leer_movimientos(WarmFiles[i].content).rows])

WarmManifest ==
    ManifestUpdate(ManifestUpdate(<<>>, WarmFiles[1].name, WarmFiles[1].mt),
                   WarmFiles[2].name, WarmFiles[2].mt)

WarmDisk ==
    /\ dataDir = <<>>
    /\ procDir = {[dir |-> ToPeriodM(leer_movimientos(f.content).rows[1].fecha),
                   name |-> f.name, content |-> f.content] : f \in Range(WarmFiles)}
    /\ masterFile = File(WarmLedger)
    /\ manifestFile = DumpManifest(WarmManifest)
    /\ csvDir = File(Aggregate(WarmLedger))

InitWarm ==
    /\ WarmDisk
    /\ pc = "idle"
    /\ manifest = <<>>
    /\ pendientes = <<>>
    /\ k = 1
    /\ nuevos_df = <<>>
    /\ exit = "ok"
    /\ runs = 0
    /\ hist = [NoHist EXCEPT !.ingested = Range(WarmFiles)]
    /\ arg = <<>>
    /\ res = NoFile

SpecWarm == InitWarm /\ [][Next]_vars

\* ------------------------------------------------- the script run repeatedly
\* The operator has left spreadsheets in data/ and from then on only starts
\* the script, again and again, touching nothing in between: the runs are
\* not counted, and each one started is carried through to its end.
\* the spreadsheets leer_movimientos raises on
Raises(c) == leer_movimientos(c).kind = "raise"

\* the spreadsheets that are parsed into a frame with rows
Valid ==
    {c \in Contents : /\ leer_movimientos(c).kind = "df"
                      /\ leer_movimientos(c).rows # <<>>}

DataDirs ==
    {[f \in {"a.xls"} |-> a] : a \in [mt : MTimes, content : Valid]}
      \cup {[f \in Names |-> IF f = "a.xls" THEN a ELSE b] :
               a \in [mt : MTimes, content : Valid],
               b \in [mt : MTimes, content : Contents]}

InitRetry ==
    /\ dataDir \in DataDirs
    /\ procDir = {}
    /\ masterFile = NoFile
    /\ manifestFile = NoFile
    /\ csvDir = NoFile
    /\ pc = "idle"
    /\ manifest = <<>>
    /\ pendientes = <<>>
    /\ k = 1
    /\ nuevos_df = <<>>
    /\ exit = "none"
    /\ runs = 0
    /\ hist = NoHist
    /\ arg = <<>>
    /\ res = NoFile

\* the script is started once more
Rerun ==
    /\ UNCHANGED alone
    /\ pc = "idle"
    /\ runs' = runs
    /\ Scan

NextRetry == Rerun \/ ProcessFile \/ Merge \/ WriteManifest \/ Report

SpecRetry ==
    /\ InitRetry
    /\ [][NextRetry]_vars
    /\ WF_vars(Rerun)
    /\ WF_vars(ProcessFile)
    /\ WF_vars(Merge)
    /\ WF_vars(WriteManifest)
    /\ WF_vars(Report)

\* ------------------------------------------------- the channel of a row
Markers == {r_MODO, r_TJ, r_Tarjeta, r_Agencia, r_Caja, r_Bono, r_Deposito}

\* values of the column Movimiento
Movimientos ==
    {NaN} \cup Markers \cup {a \o <<" ", "-", " ">> \o b : a, b \in Markers}

\* values of the column Tipo Mov.
TiposMov ==
    {NaN, r_Deposito, r_Carga \o <<" ">> \o r_Bono}
    \cup {r_CargaSaldoDesde \o <<" ">> \o m : m \in {r_MODO, r_TJ, r_Bono}}

InitCanal ==
    /\ Fresh
    /\ arg \in [tipo : TiposMov, mov : Movimientos]
    /\ res = NoFile

\* generar_reporte_incremental.py lines 236-250: is the row a deposit, and
\* with which Canal
CanalIncremental ==
    /\ res = NoFile
    /\ res' = File([script |-> "incremental",
                    carga  |-> mask_carga(arg.tipo),
                    Canal  |-> clasificar_canal(arg.mov, arg.tipo)])
    /\ UNCHANGED <<pipeline, arg>>

\* generar_reportev2.py lines 147-151
CanalV2 ==
    /\ res = NoFile
    /\ res' = File([script |-> "v2",
                    carga  |-> mask_carga_v2(arg.tipo),
                    Canal  |-> clasificar_canal_v2(arg.mov)])
    /\ UNCHANGED <<pipeline, arg>>

NextCanal == CanalIncremental \/ CanalV2

SpecCanal == InitCanal /\ [][NextCanal]_vars

\* ------------------------------------------------ normalizar, studied alone
\* str.upper(), character by character
Upper(c) ==
    IF \E i \in 1..Len(LowerCase) : LowerCase[i] = c
    THEN UpperCase[CHOOSE i \in 1..Len(LowerCase) : LowerCase[i] = c]
    ELSE c

\* the cells normalizar is applied to: the missing cell, the empty text, the
\* labels of the two columns as exported, in capitals, and with their
\* accents already decomposed
Textos ==
    LET exportados == (Movimientos \cup TiposMov) \ {NaN}
    IN  {NaN, <<>>}
          \cup exportados
          \cup {[i \in 1..Len(t) |-> Upper(t[i])] : t \in exportados}
          \cup {Flatten([i \in 1..Len(t) |-> NFKD(t[i])]) : t \in exportados}

InitTexto ==
    /\ Fresh
    /\ arg \in Textos
    /\ res = NoFile

\* normalizar(txt)
Normaliza ==
    /\ res = NoFile
    /\ res' = File([veces |-> 1, txt |-> normalizar(arg)])
    /\ UNCHANGED <<pipeline, arg>>

\* normalizar(normalizar(txt))
NormalizaOtraVez ==
    /\ res # NoFile
    /\ Content(res).veces = 1
    /\ res' = File([veces |-> 2, txt |-> normalizar(Content(res).txt)])
    /\ UNCHANGED <<pipeline, arg>>

NextTexto == Normaliza \/ NormalizaOtraVez

SpecTexto == InitTexto /\ [][NextTexto]_vars

\* ------------------------------------------- the channel KPIs of the report
MaxCargas == 2      \* rows of the ledger the KPIs are derived from

\* float("nan"): the Importe of a row whose cell was blank
SinImporte == <<>>

\* values of Importe, as option values
ImportesKpi == {SinImporte, <<100>>, <<250>>}

\* rows of the ledger, with their labels as texts
MovsKpi ==
    [tipo    : TiposMov \ {r_Deposito},
     mov     : {NaN, r_MODO, r_Bono},
     importe : ImportesKpi]

\* Series.count(): the rows with a non-null Importe
CountOf(rows) == Cardinality({r \in rows : r.importe # SinImporte})

RECURSIVE MontoOf(_)
\* Series.sum(): the null amounts are skipped
MontoOf(rows) ==
    IF rows = {} THEN 0
    ELSE LET r == CHOOSE x \in rows : TRUE
         IN  (IF r.importe = SinImporte THEN 0 ELSE r.importe[1]) + MontoOf(rows \ {r})

\* lines 236-247: the deposits view, each row with its Canal
cargas_kpi(data) ==
    {[tipo |-> r.tipo, mov |-> r.mov, importe |-> r.importe,
      Canal |-> clasificar_canal(r.mov, r.tipo)] : r \in {x \in data : mask_carga(x.tipo)}}

\* lines 440-446: per Canal, the count and the sum of Importe
agg_canal(data) ==
    {[Canal    |-> c,
      Recargas |-> CountOf({r \in cargas_kpi(data) : r.Canal = c}),
      Monto    |-> MontoOf({r \in cargas_kpi(data) : r.Canal = c})]
       : c \in {r.Canal : r \in cargas_kpi(data)}}

\* .loc[agg_canal["Canal"] == canal, col].sum(), 0 on an empty agg_canal
DeCanal(agg, canal, col) ==
    IF \E g \in agg : g.Canal = canal
    THEN (CHOOSE g \in agg : g.Canal = canal)[col]
    ELSE 0

\* lines 447-450 and the rows of resumen_kpis they fill
resumen_kpis(data) ==
    [recargas_modo   |-> DeCanal(agg_canal(data), "MODO", "Recargas"),
     recargas_retail |-> DeCanal(agg_canal(data), "Retail", "Recargas"),
     monto_modo      |-> DeCanal(agg_canal(data), "MODO", "Monto"),
     monto_retail    |-> DeCanal(agg_canal(data), "Retail", "Monto")]

InitKpis ==
    /\ Fresh
    /\ arg = {}
    /\ res = NoFile

\* one more row in the ledger the report stage will read
IngresaKpi(r) ==
    /\ res = NoFile
    /\ Cardinality(arg) < MaxCargas
    /\ r \notin arg
    /\ arg' = arg \cup {r}
    /\ UNCHANGED <<pipeline, res>>

\* lines 232-250 and 435-465
Kpis ==
    /\ res = NoFile
    /\ arg # {}
    /\ res' = File([cargas |-> cargas_kpi(arg), resumen_kpis |-> resumen_kpis(arg)])
    /\ UNCHANGED <<pipeline, arg>>

NextKpis == (\E r \in MovsKpi : IngresaKpi(r)) \/ Kpis

SpecKpis == InitKpis /\ [][NextKpis]_vars

\* ------------------------------------------- the tables on the accounts
MaxMovs == 3        \* rows of the ledger the tables are derived from

Fechas ==
    {NaT, <<2025, 4, 13>>, <<2025, 4, 14>>, <<2025, 7, 7>>,
     <<2025, 8, 1>>, <<2025, 8, 6>>, <<2025, 8, 7>>}

Documentos == {7, 8}

\* <<Tipo Mov., Movimiento>> of a MODO deposit, a card deposit and a wager
Clases ==
    { <<"Carga saldo desde MODO", "MODO">>,
      <<"Carga saldo desde TJ", "TJ">>,
      <<"Jugada", "Jugada - Quini 6">> }

Movs ==
    {[doc |-> d, fecha |-> f, tipo |-> c[1], mov |-> c[2], importe |-> 100] :
        d \in Documentos, f \in Fechas, c \in Clases}

InitTablas ==
    /\ Fresh
    /\ arg = {}
    /\ res = NoFile

\* one more row in the ledger the report stage will read
Ingresa(r) ==
    /\ res = NoFile
    /\ Cardinality(arg) < MaxMovs
    /\ r \notin arg
    /\ arg' = arg \cup {r}
    /\ UNCHANGED <<pipeline, res>>

\* lines 328-432: the tables on the accounts, from the ledger
Tablas ==
    /\ res = NoFile
    /\ arg # {}        \* the ledger file never holds an empty frame
    /\ res' = File([retencion_modo   |-> retencion_modo(arg),
                    usuarios_hitos   |-> usuarios_hitos(arg),
                    comparativa_modo |-> comparativa_modo(arg)])
    /\ UNCHANGED <<pipeline, arg>>

NextTablas == (\E r \in Movs : Ingresa(r)) \/ Tablas

SpecTablas == InitTablas /\ [][NextTablas]_vars

\* ----------------------------------------- the tables that use the roster
FechasPadron == {<<2025, 4, 14>>, <<2025, 7, 7>>, <<2025, 8, 7>>}

Altas == {NaT, <<2024, 5, 1>>, <<2025, 7, 10>>}

MovsPadron == {r \in Movs : r.fecha \in FechasPadron}

Padrones ==
    {SinPadron, PadronIlegible}
    \cup {Padron({[DNI |-> d, Fecha_Alta |-> alta[d]] : d \in ds}) :
             ds \in SUBSET Documentos, alta \in [Documentos -> Altas]}

InitPadron ==
    /\ Fresh
    /\ arg \in [data : {{}}, padron : Padrones]
    /\ res = NoFile

IngresaConPadron(r) ==
    /\ res = NoFile
    /\ Cardinality(arg.data) < MaxMovs
    /\ r \notin arg.data
    /\ arg' = [arg EXCEPT !.data = @ \cup {r}]
    /\ UNCHANGED <<pipeline, res>>

\* lines 476-779: the part of the report stage that looks at the roster;
\* every failure in it is caught, and the script goes on to its end
TablasConPadron ==
    /\ res = NoFile
    /\ arg.data # {}
    /\ LET usuarios == usuarios_de(arg.padron)
           escritos == csv_escritos(arg.data, arg.padron)
       IN  res' = File([fin               |-> "ok",
                        escritos          |-> escritos,
                        df_funnel         |-> df_funnel(arg.data, usuarios.filas),
                        kpis_actividad    |-> kpis_actividad(arg.data, arg.padron),
                        retencion_cohorts |->
                            IF "retencion_cohorts.csv" \in escritos
                            THEN File(cohort_summary(arg.data, usuarios.filas))
                            ELSE NoFile])
    /\ UNCHANGED <<pipeline, arg>>

NextPadron == (\E r \in MovsPadron : IngresaConPadron(r)) \/ TablasConPadron

SpecPadron == InitPadron /\ [][NextPadron]_vars

\* ------------------------------------------------- encontrar_inactivos.py
\* a cell of the roster's id column that pd.to_numeric(errors="coerce")
\* turns into NaN; a numeric one is <<n>>
NoNumerico == <<>>

\* the rows of the ledger the script reads: one timestamp is enough here
MovsInactivos == {r \in Movs : r.fecha = FECHA_MODO_FULL}

\* USUARIOS_FILE: absent, unreadable, or rows with their id cell
PadronesInactivos ==
    {SinPadron, PadronIlegible}
    \cup {Padron({[Documento |-> c] : c \in cs}) :
             cs \in SUBSET ({<<d>> : d \in Documentos} \cup {NoNumerico})}

\* lines 24-43: the roster rows with a numeric id, the id as an integer
df_all_users(padron) ==
    {[Documento |-> u.Documento[1]] : u \in {x \in padron.filas : x.Documento # NoNumerico}}

\* line 58: df_movements["Documento"].unique()
active_user_ids(data) == {r.doc : r \in data}

\* the roster accounts found in the ledger
df_active_users(padron, data) ==
    {u \in df_all_users(padron) : u.Documento \in active_user_ids(data)}

\* lines 74-75: mask_inactive and df_all_users[mask_inactive]
df_inactive_users(padron, data) ==
    {u \in df_all_users(padron) : u.Documento \notin active_user_ids(data)}

InitInactivos ==
    /\ Fresh
    /\ arg \in [data : {{}}, padron : PadronesInactivos]
    /\ res = NoFile

\* one more row in the ledger, before the script is run
IngresaInactivos(r) ==
    /\ res = NoFile
    /\ Cardinality(arg.data) < MaxMovs
    /\ r \notin arg.data
    /\ arg' = [arg EXCEPT !.data = @ \cup {r}]
    /\ UNCHANGED <<pipeline, res>>

\* lines 17-93: sys.exit() without the roster or without the ledger (an
\* empty set of rows stands for the absent MASTER_FILE), else SALIDA_FILE;
\* res is the exit and the content of SALIDA_FILE
EncontrarInactivos ==
    /\ res = NoFile
    /\ res' = IF ~arg.padron.existe \/ ~arg.padron.legible \/ arg.data = {}
              THEN File([fin |-> "exit", salida |-> NoFile])
              ELSE File([fin    |-> "ok",
                         salida |-> File(df_inactive_users(arg.padron, arg.data))])
    /\ UNCHANGED <<pipeline, arg>>

NextInactivos == (\E r \in MovsInactivos : IngresaInactivos(r)) \/ EncontrarInactivos

SpecInactivos == InitInactivos /\ [][NextInactivos]_vars

\* ======================================================================
\* Properties
\* ======================================================================
RunEnded == pc = "idle" /\ hist.live

Entries(mf) == IF mf = NoFile THEN {} ELSE Range(Content(mf))

Rows(mf) == IF mf = NoFile THEN <<>> ELSE Content(mf)

Ids(rows) == {rows[i].nro : i \in 1..Len(rows)}

ParsesOk(c) == leer_movimientos(c).kind = "df"

RawIds(c) == {FileOf(c).rows[i].nro : i \in 1..Len(FileOf(c).rows)}

Recorded(p, mf) == [archivo |-> p.name, mod_time |-> p.mt] \in Entries(mf)

\* ------------------------------------------------------------------ C1
\* C1: the persisted ledger never holds two rows with one transaction id,
\* also after the run that creates it; and when the ledger is created from
\* the file with id 1 at 1000.00 followed by the file with id 1 at 1200.00,
\* the total deposit amount written by the report is 1200.00.
C1_OneRowPerTransactionId ==
    /\ \A i, j \in 1..Len(Rows(masterFile)) :
          Rows(masterFile)[i].nro = Rows(masterFile)[j].nro => i = j
    /\ ( /\ RunEnded
         /\ exit = "ok"
         /\ hist.ledger0 = NoFile
         /\ [i \in 1..Len(hist.parsed) |-> hist.parsed[i].content] = <<"ok1", "ok2">> )
       => Content(csvDir).monto_cargas = 120000

\* ------------------------------------------------------------------ C2
\* the amount the source files of the run give for id: that of the last row
\* with this id in the last file processed that holds it
LastSeenAmount(id) ==
    LET holders == {i \in 1..Len(hist.parsed) : id \in RawIds(hist.parsed[i].content)}
        last    == CHOOSE i \in holders : \A j \in holders : j <= i
        rows    == FileOf(hist.parsed[last].content).rows
        at      == CHOOSE i \in 1..Len(rows) :
                      /\ rows[i].nro = id
                      /\ \A j \in (i + 1)..Len(rows) : rows[j].nro # id
    IN  ParseImporte(rows[at].importe).val

BatchIds == UNION {RawIds(hist.parsed[i].content) : i \in 1..Len(hist.parsed)}

\* C2: after a completed run over an existing ledger, every transaction id
\* carried by a file ingested in the run has exactly one ledger row, and
\* that row's amount is the one of the file processed last that carries it.
C2_BatchWinsOverLedger ==
    (RunEnded /\ exit = "ok" /\ hist.ledger0 # NoFile)
    => \A id \in BatchIds :
          LET hit == SelectSeq(Rows(masterFile), LAMBDA r : r.nro = id)
          IN  Len(hit) = 1 /\ hit[1].importe = LastSeenAmount(id)

C2_Witness ==
    /\ RunEnded /\ exit = "ok" /\ hist.ledger0 # NoFile
    /\ \E i \in 1..Len(Rows(hist.ledger0)) :
          /\ Rows(hist.ledger0)[i].nro = 1
          /\ Rows(hist.ledger0)[i].importe = 100000
    /\ \E i \in 1..Len(hist.parsed) : hist.parsed[i].content = "ok2"
    /\ \E i \in 1..Len(Rows(masterFile)) :
          /\ Rows(masterFile)[i].nro = 1
          /\ Rows(masterFile)[i].importe = 120000

\* ------------------------------------------------------------------ C3
PendNames == {hist.pend[i].name : i \in 1..Len(hist.pend)}

\* C3: the run selects a file of the inbound directory exactly when the
\* manifest on disk has no entry for its name or holds for it a modified
\* time other than the file's current one.
C3_PendingIffNewOrChanged ==
    [][ (pc = "idle" /\ hist'.live /\ runs' = runs + 1)
        => \A f \in Names :
              (f \in {hist'.pend[i].name : i \in 1..Len(hist'.pend)})
              <=> /\ f \in DOMAIN dataDir
                  /\ \/ \A e \in Entries(manifestFile) : e.archivo # f
                     \/ \E e \in Entries(manifestFile) :
                           e.archivo = f /\ e.mod_time # dataDir[f].mt ]_vars

\* a run has just selected its files: one file is left out because the
\* manifest holds its current modified time, another is taken because the
\* manifest holds a different one
C3_Witness ==
    /\ pc = "loop" /\ k = 1
    /\ \E f \in DOMAIN dataDir :
          /\ f \notin PendNames
          /\ [archivo |-> f, mod_time |-> dataDir[f].mt] \in Entries(manifestFile)
    /\ \E f \in PendNames :
          \E e \in Entries(manifestFile) : e.archivo = f /\ e.mod_time # dataDir[f].mt

\* ------------------------------------------------------------------ C4
\* C4: when the processing of one pending file raises, the run still merges
\* every pending file that parses into the ledger and records it in the
\* manifest.
C4_ParseFailureDoesNotAbort ==
    (RunEnded /\ hist.raised # {})
    => \A i \in 1..Len(hist.pend) :
          ParsesOk(hist.pend[i].content)
          => /\ RawIds(hist.pend[i].content) \subseteq Ids(Rows(masterFile))
             /\ Recorded(hist.pend[i], manifestFile)

\* ------------------------------------------------------------------ C5
\* C5: with a ledger present, a run whose pending files all lack a header
\* row ends successfully, having written the report tables from the ledger.
C5_HeaderlessFilesDoNotAbort ==
    ( /\ RunEnded
      /\ hist.ledger0 # NoFile
      /\ hist.pend # <<>>
      /\ \A i \in 1..Len(hist.pend) : leer_movimientos(hist.pend[i].content).kind = "None" )
    => exit = "ok" /\ csvDir = File(Aggregate(Content(masterFile)))

\* ------------------------------------------------------------------ C6
\* C6: a file the run rejects for its missing header stays in the inbound
\* directory as it was and has no manifest entry for its modified time,
\* neither in memory nor on disk; and a file the previous run rejected that
\* is still in the inbound directory with that modified time is selected as
\* pending by the next run.
C6_RejectedFileIsRetried ==
    hist.live
    => /\ \A s \in hist.skipped :
             /\ s.name \in DOMAIN dataDir
             /\ dataDir[s.name] = [mt |-> s.mt, content |-> s.content]
             /\ ~Recorded(s, manifestFile)
             /\ \A i \in 1..Len(manifest) :
                   ~(manifest[i].archivo = s.name /\ manifest[i].mod_time = s.mt)
       /\ \A s \in hist.retry : s.name \in PendNames

\* the second run has selected again a file the first run rejected, after a
\* first run that did write a manifest
C6_Witness ==
    /\ hist.live
    /\ pc = "loop"
    /\ manifestFile # NoFile
    /\ \E s \in hist.retry : s.name \in PendNames /\ s.content = "nohdr"

\* ------------------------------------------------------------------ C7
\* C7: in a run that starts without a ledger and in which no pending file
\* parses into a frame, no ledger appears, the manifest and the report
\* tables stay as the run found them, and the run ends with an error.
C7_NothingToBootstrapIsFatal ==
    ( /\ hist.live
      /\ hist.ledger0 = NoFile
      /\ \A i \in 1..Len(hist.pend) : ~ParsesOk(hist.pend[i].content) )
    => /\ masterFile = NoFile
       /\ manifestFile = hist.manifest0
       /\ csvDir = hist.csv0
       /\ pc = "idle" => exit = "error"

\* a run without a ledger whose only pending file has no header has ended
C7_Witness ==
    /\ RunEnded
    /\ hist.ledger0 = NoFile
    /\ Len(hist.pend) = 1
    /\ hist.skipped # {}
    /\ exit = "error"
    /\ masterFile = NoFile

\* ------------------------------------------------------------------ C8
\* C8: after a completed run the manifest on disk holds, for every file
\* parsed in the run, an entry with the modified time read in the run.
C8_ManifestRecordsEveryParsedFile ==
    (RunEnded /\ exit = "ok")
    => \A i \in 1..Len(hist.parsed) : Recorded(hist.parsed[i], manifestFile)

\* ------------------------------------------------------------------ C9
\* C9: at every step of a run the ledger and the manifest have either both
\* been written by the run or neither.
C9_LedgerAndManifestAsAUnit ==
    hist.live => (("ledger" \in hist.wrote) <=> ("manifest" \in hist.wrote))

\* ----------------------------------------------------------------- C10
\* a run that finds no pending file over an existing ledger leaves the
\* ledger and the manifest as they were, ends successfully and leaves the
\* report tables equal to those it found, which an earlier run derived from
\* the same ledger; and no step of the report stage changes the ledger.
C10_State ==
    (hist.live /\ hist.pend = <<>> /\ hist.ledger0 # NoFile)
    => /\ masterFile = hist.ledger0
       /\ manifestFile = hist.manifest0
       /\ hist.csv0 = File(Aggregate(Content(hist.ledger0)))
       /\ pc = "idle" => (exit = "ok" /\ csvDir = hist.csv0)

\* C10: C10_State holds throughout, and a step taken from the report stage
\* leaves the ledger file as it is.
C10_IdleRunChangesNothing ==
    /\ []C10_State
    /\ [][pc = "report" => masterFile' = masterFile]_vars

C10_Witness ==
    /\ RunEnded
    /\ hist.pend = <<>>
    /\ hist.ledger0 # NoFile
    /\ exit = "ok"
    /\ csvDir = hist.csv0
    /\ csvDir # NoFile

\* ----------------------------------------------------------------- C11
C11_State ==
    (RunEnded /\ exit = "ok")
    => /\ Ids(Rows(hist.ledger0)) \subseteq Ids(Rows(masterFile))
       /\ BatchIds \subseteq Ids(Rows(masterFile))

\* C11: no step removes a transaction id from the ledger, and after a
\* completed run the ledger holds every id it held before the run and every
\* id of every file parsed in the run.
C11_LedgerIdsNeverShrink ==
    /\ []C11_State
    /\ [][Ids(Rows(masterFile)) \subseteq Ids(Rows(masterFile'))]_vars

\* a completed run over a ledger holding id 2 has parsed a file that does
\* not carry id 2, and the ledger still holds it
C11_Witness ==
    /\ RunEnded /\ exit = "ok"
    /\ 2 \in Ids(Rows(hist.ledger0))
    /\ BatchIds # {}
    /\ 2 \notin BatchIds
    /\ 2 \in Ids(Rows(masterFile))

\* ----------------------------------------------------------------- C12
\* the names of Names in lexical order, as sorted() would list them
LexicalOrder == <<"a.xls", "b.xls">>

\* the frames of the files parsed in the run, taken in lexical order of name
FramesInLexicalOrder ==
    LET byName(n) == {i \in 1..Len(hist.parsed) : hist.parsed[i].name = n}
        frame(n)  == IF byName(n) = {} THEN <<>>
                     ELSE << leer_movimientos(
                               hist.parsed[CHOOSE i \in byName(n) : TRUE].content).rows >>
    IN  Flatten([j \in 1..Len(LexicalOrder) |-> frame(LexicalOrder[j])])

\* C12: the ledger a completed run leaves holds the rows that processing the
\* same files in lexical order of name over the same ledger leaves, whatever
\* order the directory listing returned them in.
C12_LedgerIndependentOfListingOrder ==
    (RunEnded /\ exit = "ok" /\ hist.parsed # <<>>)
    => Range(Rows(masterFile)) = Range(DataTotal(hist.ledger0, FramesInLexicalOrder))

\* ----------------------------------------------------------------- C14
OnePerName(m) == \A i, j \in 1..Len(m) : m[i].archivo = m[j].archivo => i = j

\* C14: the manifest, in memory and on disk, never holds two entries for one
\* filename.
C14_OneManifestEntryPerFile ==
    OnePerName(manifest) /\ OnePerName(Rows(manifestFile))

\* a completed run has parsed again a file the manifest already listed with
\* an older modified time, and the manifest now lists it with the new one
C14_Witness ==
    /\ RunEnded /\ exit = "ok"
    /\ \E i \in 1..Len(hist.parsed) :
          /\ \E e \in Entries(hist.manifest0) :
                e.archivo = hist.parsed[i].name /\ e.mod_time # hist.parsed[i].mt
          /\ Recorded(hist.parsed[i], manifestFile)

\* ----------------------------------------------------------------- C13
\* C13: a run never parses a file that is, in name, modified time and
\* content, the file of that name last merged into the ledger by an earlier
\* run.
C13_UnchangedFileNotParsedAgain ==
    hist.live => \A i \in 1..Len(hist.parsed) : hist.parsed[i] \notin hist.before

\* ----------------------------------------------------------------- C15
\* some one of the two labels of the row, normalised, contains w
LabelHas(w) == Contains(normalizar(arg.mov), w) \/ Contains(normalizar(arg.tipo), w)

\* C15: a row either script takes for a deposit gets the channel MODO when a
\* normalised label contains "modo"; else Retail when one contains "tarjeta"
\* or "tj"; and the channel Otro, not Retail, when its labels contain none
\* of "modo", "tarjeta", "tj", "agencia", "pos", "caja".
C15_ChannelByLabel ==
    (res # NoFile /\ Content(res).carga)
    => LET Canal == Content(res).Canal
       IN  /\ LabelHas(w_modo) => Canal = "MODO"
           /\ (~LabelHas(w_modo) /\ (LabelHas(w_tarjeta) \/ LabelHas(w_tj)))
                 => Canal = "Retail"
           /\ (\A w \in {w_modo, w_tarjeta, w_tj, w_agencia, w_pos, w_caja} : ~LabelHas(w))
                 => (Canal = "Otro" /\ Canal # "Retail")

\* ----------------------------------------------------------------- C16
\* the timestamps of the account's MODO deposits, of all its rows, of its wagers
ModoTimes(d) ==
    {r.fecha : r \in {x \in arg : x.doc = d /\ x.tipo = "Carga saldo desde MODO"}} \ {NaT}
AllTimes(d) == {r.fecha : r \in {x \in arg : x.doc = d}} \ {NaT}
WagerTimes(d) == {r.fecha : r \in {x \in arg : x.doc = d /\ x.tipo = "Jugada"}} \ {NaT}

\* C16: for every account whose first MODO deposit is at time t the table
\* has a row; its new-via-MODO flag is true iff no timestamp of the account
\* is earlier than t; its 1-day flag iff some wager of the account is later
\* than t and at most 1 day later; its 30-day flag iff some wager is later
\* than t and at most 30 days later.
C16_RetentionFlags ==
    res # NoFile
    => \A d \in Documentos :
          ModoTimes(d) # {}
          => LET t == CHOOSE f \in ModoTimes(d) :
                         \A g \in ModoTimes(d) : Ordinal(f) <= Ordinal(g)
                 within(n) == \E w \in WagerTimes(d) :
                                 Ordinal(t) < Ordinal(w) /\ Ordinal(w) <= Ordinal(t) + n
             IN  \E row \in Content(res).retencion_modo :
                    /\ row.Documento = d
                    /\ row.Es_Nuevo <=> \A g \in AllTimes(d) : Ordinal(t) <= Ordinal(g)
                    /\ row.Jugo_Dia_Sig <=> within(1)
                    /\ row.Jugo_Mes_Sig <=> within(30)

\* first activity and first MODO deposit on 7 July, one wager 25 days later:
\* new, wagered within 30 days, not within 1 day
C16_Witness ==
    /\ res # NoFile
    /\ arg = { [doc |-> 7, fecha |-> <<2025, 7, 7>>, tipo |-> "Carga saldo desde MODO",
                mov |-> "MODO", importe |-> 100],
               [doc |-> 7, fecha |-> <<2025, 8, 1>>, tipo |-> "Jugada",
                mov |-> "Jugada - Quini 6", importe |-> 100] }
    /\ \E row \in Content(res).retencion_modo :
          row.Documento = 7 /\ row.Es_Nuevo /\ row.Jugo_Mes_Sig /\ ~row.Jugo_Dia_Sig

\* ----------------------------------------------------------------- C17
\* C17: in the comparison table the Before and the After deposit totals add
\* up to the total of the deposits view, and the Before and the After wager
\* totals to the total of the wagers view: each row is in one of the two
\* periods.
C17_BeforeAfterPartition ==
    res # NoFile
    => LET cmp == Content(res).comparativa_modo
       IN  /\ cmp.dep_before + cmp.dep_after = SumOf(cargas_de(arg))
           /\ cmp.rec_before + cmp.rec_after = SumOf(apuestas_de(arg))

\* ----------------------------------------------------------------- C18
\* the accounts of doc whose rows of the kinds in tipos have a timestamp
FirstOf(d, tipos) ==
    FirstFecha({r \in arg : r.tipo \in tipos}, d)

TodosLosTipos == {c[1] : c \in Clases}

\* C18 as stated: each counter is the number of accounts whose first event
\* of its kind (any row, a wager, a MODO deposit) is on or after the cutover.
C18_FirstEventCounters ==
    res # NoFile
    => LET h == Content(res).usuarios_hitos
           n(tipos, corte) ==
               Cardinality({d \in Documentos : Ge(FirstOf(d, tipos), corte)})
       IN  /\ h.nuevos_desde_juegos = n(TodosLosTipos, FECHA_LANZ_JUEGOS)
           /\ h.jugadores_desde_juegos = n({"Jugada"}, FECHA_LANZ_JUEGOS)
           /\ h.jugadores_post_modo = n({"Jugada"}, FECHA_MODO_FULL)
           /\ h.usuarios_modo_desde = n({"Carga saldo desde MODO"}, FECHA_MODO_FULL)

\* C18, amended: the first counter is the number of accounts whose first
\* timestamp of all is on or after the games cutover; the wager counters and
\* the MODO deposit counter are the numbers of accounts with some wager, or
\* some MODO deposit, on or after their cutover, whenever the first one was.
C18_MilestoneCounters ==
    res # NoFile
    => LET h == Content(res).usuarios_hitos
           some(tipos, corte) ==
               Cardinality({d \in Documentos :
                   \E r \in arg : /\ r.doc = d /\ r.tipo \in tipos /\ r.fecha # NaT
                                  /\ Ordinal(r.fecha) >= Ordinal(corte)})
       IN  /\ h.nuevos_desde_juegos =
                 Cardinality({d \in Documentos :
                     Ge(FirstOf(d, TodosLosTipos), FECHA_LANZ_JUEGOS)})
           /\ h.jugadores_desde_juegos = some({"Jugada"}, FECHA_LANZ_JUEGOS)
           /\ h.jugadores_post_modo = some({"Jugada"}, FECHA_MODO_FULL)
           /\ h.usuarios_modo_desde = some({"Carga saldo desde MODO"}, FECHA_MODO_FULL)

\* an account wagered the day before the games cutover and twice after it:
\* it is not new since the cutover, and it counts once as having wagered
\* since
C18_Witness ==
    /\ res # NoFile
    /\ \E d \in Documentos :
          /\ {r.fecha : r \in {x \in arg : x.doc = d /\ x.tipo = "Jugada"}}
                = {<<2025, 4, 13>>, <<2025, 4, 14>>, <<2025, 7, 7>>}
    /\ Content(res).usuarios_hitos.nuevos_desde_juegos = 0
    /\ Content(res).usuarios_hitos.jugadores_desde_juegos = 1

\* ----------------------------------------------------------------- C19
\* the dated wagers and deposits of account d in the ledger of the roster tables
Apuestas19(d) == {r \in arg.data : r.doc = d /\ r.tipo = "Jugada" /\ r.fecha # NaT}
Cargas19(d) ==
    {r \in arg.data : /\ r.doc = d /\ r.fecha # NaT
                      /\ r.tipo \in {"Carga saldo desde MODO", "Carga saldo desde TJ"}}

\* the roster accounts that signed up in month m and have a dated wager
Cohorte19(m) ==
    {u.DNI : u \in {x \in arg.padron.filas :
                      ToPeriodM(x.Fecha_Alta) = m /\ Apuestas19(x.DNI) # {}}}

\* account d wagered later than its first MODO deposit and at most 30 days later
EnVentana19(d) ==
    \E c \in Cargas19(d) :
       /\ c.tipo = "Carga saldo desde MODO"
       /\ \A c2 \in Cargas19(d) :
             c2.tipo = "Carga saldo desde MODO" => Ordinal(c.fecha) <= Ordinal(c2.fecha)
       /\ \E w \in Apuestas19(d) :
             Ordinal(c.fecha) < Ordinal(w.fecha) /\ Ordinal(w.fecha) <= Ordinal(c.fecha) + 30

\* C19 as stated: the retained count of a signup month counts only accounts
\* of that month that wagered within 30 days after their first MODO deposit.
C19_RetainedWithinWindow ==
    (res # NoFile /\ Content(res).retencion_cohorts # NoFile)
    => \A row \in Content(Content(res).retencion_cohorts) :
          row.Retenidos_30_Dias
             <= Cardinality({d \in Cohorte19(row.Cohorte_Mes) : EnVentana19(d)})

\* account d has a wager later than its first wager and a deposit, by MODO
\* or by card, later than its first wager
VolvioACargarYApostar19(d) ==
    \E w1 \in Apuestas19(d) :
       /\ \A w \in Apuestas19(d) : Ordinal(w1.fecha) <= Ordinal(w.fecha)
       /\ \E w \in Apuestas19(d) : Ordinal(w1.fecha) < Ordinal(w.fecha)
       /\ \E c \in Cargas19(d) : Ordinal(w1.fecha) < Ordinal(c.fecha)

\* C19, amended: the table has one row per signup month of the roster
\* accounts that have a wager; the row counts these accounts, and counts as
\* retained those with a deposit and a wager both later than their first
\* wager, with no time window and whatever the channel of the deposit.
C19_CohortRetention ==
    (res # NoFile /\ Content(res).retencion_cohorts # NoFile)
    => LET tabla == Content(Content(res).retencion_cohorts)
           meses == {ToPeriodM(u.Fecha_Alta) : u \in arg.padron.filas} \ {NaT}
       IN  /\ {row.Cohorte_Mes : row \in tabla} = {m \in meses : Cohorte19(m) # {}}
           /\ \A row \in tabla :
                 /\ row.Total_Nuevos_Usuarios = Cardinality(Cohorte19(row.Cohorte_Mes))
                 /\ row.Retenidos_30_Dias =
                       Cardinality({d \in Cohorte19(row.Cohorte_Mes) :
                                       VolvioACargarYApostar19(d)})
                 /\ \A other \in tabla : other.Cohorte_Mes = row.Cohorte_Mes => other = row

\* a cohort with one retained account: it wagered in April, deposited by
\* card in July and wagered again in August, and never deposited by MODO
C19_Witness ==
    /\ res # NoFile
    /\ Content(res).retencion_cohorts # NoFile
    /\ \E row \in Content(Content(res).retencion_cohorts) :
          /\ row.Retenidos_30_Dias = 1
          /\ \E d \in Cohorte19(row.Cohorte_Mes) :
                /\ {r.fecha : r \in Apuestas19(d)} = {<<2025, 4, 14>>, <<2025, 8, 7>>}
                /\ {r.tipo : r \in Cargas19(d)} = {"Carga saldo desde TJ"}

\* ----------------------------------------------------------------- C20
\* C20: when the roster file is absent or cannot be read, the report stage
\* runs to its end, writes the tables that do not use the roster, and writes
\* each of the four tables that use it.
C20_RosterTablesWrittenAsPlaceholders ==
    (res # NoFile /\ ~(arg.padron.existe /\ arg.padron.legible))
    => /\ Content(res).fin = "ok"
       /\ {"movimientos_modo.csv", "apuestas_diario.csv"} \subseteq Content(res).escritos
       /\ {"retencion_cohorts.csv", "nuevos_modo.csv", "reactivados_modo.csv",
           "apuestas_con_usuarios.csv"} \subseteq Content(res).escritos

\* ----------------------------------------------------------------- C23
\* the months of the transactions a spreadsheet holds
Meses(c) ==
    {ToPeriodM(ParseFecha(FileOf(c).rows[i].fecha)) : i \in 1..Len(FileOf(c).rows)}

\* the folder a parsed spreadsheet is archived in: the month of its first row
DestDir(c) == ToPeriodM(ParseFecha(FileOf(c).rows[1].fecha))

Archived(p, dir) ==
    [dir |-> dir, name |-> p.name, content |-> p.content] \in procDir

\* C23 as stated: after a completed run every file parsed in it is out of
\* data/ and lies in the processed/ folder of the month of the transactions
\* it contains, whichever of its transactions is taken.
C23_ArchivedUnderMonthOfItsTransactions ==
    (RunEnded /\ exit = "ok")
    => \A p \in Range(hist.parsed) :
          /\ p.name \notin DOMAIN dataDir
          /\ \A m \in Meses(p.content) : Archived(p, m)

\* C23, amended: after a completed run every file parsed in it is out of
\* data/ and lies in exactly one processed/ folder, the one named for the
\* month of its first transaction.
C23_ArchivedUnderMonthOfFirstRow ==
    (RunEnded /\ exit = "ok")
    => \A p \in Range(hist.parsed) :
          /\ p.name \notin DOMAIN dataDir
          /\ Archived(p, DestDir(p.content))
          /\ \A m \in Meses(p.content) \ {DestDir(p.content)} : ~Archived(p, m)

\* a completed run has archived a spreadsheet holding a July deposit and an
\* August wager: it lies under 2025-07 and nowhere else
C23_Witness ==
    /\ RunEnded /\ exit = "ok"
    /\ \E p \in Range(hist.parsed) :
          /\ Meses(p.content) = {<<2025, 7>>, <<2025, 8>>}
          /\ Archived(p, <<2025, 7>>)
          /\ p.name \notin DOMAIN dataDir

\* ----------------------------------------------------------------- C24
\* C24: when a run has ended, with an error or not, every spreadsheet it
\* moved from data/ into processed/ has all its transaction ids in the
\* ledger on disk.
C24_ArchivedFilesAreInTheLedger ==
    RunEnded
    => \A p \in Range(hist.parsed) :
          /\ Archived(p, DestDir(p.content))
          /\ RawIds(p.content) \subseteq Ids(Rows(masterFile))

\* ----------------------------------------------------------------- C25
\* C25: when a run has ended, every entry the manifest on disk held at the
\* start of the run for a file that was not pending in the run is still in
\* the manifest on disk, with the same modified time.
C25_OtherManifestEntriesKept ==
    RunEnded
    => \A e \in Entries(hist.manifest0) :
          e.archivo \notin PendNames => e \in Entries(manifestFile)

\* ----------------------------------------------------------------- C27
\* the rows leer_movimientos gives for the files parsed in the run
BatchRows == UNION {Range(leer_movimientos(hist.parsed[i].content).rows) :
                       i \in 1..Len(hist.parsed)}

\* C27: when a run has merged a batch all of whose rows were already in the
\* ledger with the same field values, the ledger written holds the same set
\* of rows as the ledger the run found.
C27_ReingestingLeavesLedgerRows ==
    (RunEnded /\ "ledger" \in hist.wrote /\ hist.ledger0 # NoFile
       /\ BatchRows \subseteq Range(Rows(hist.ledger0)))
    => Range(Rows(masterFile)) = Range(Rows(hist.ledger0))

\* ----------------------------------------------------------------- C26
\* data/ holds a.xls with the rows of c and b.xls whose parsing raises
ValidWithBad(c) ==
    /\ pc = "idle"
    /\ DOMAIN dataDir = Names
    /\ dataDir["a.xls"].content = c
    /\ Raises(dataDir["b.xls"].content)

\* C26: when data/ holds a valid spreadsheet together with one whose parsing
\* raises, and the script is run again and again with nothing removed, then
\* eventually the transactions of the valid spreadsheet are in the ledger on
\* disk and a run has written the reports.
C26_ValidFileEventuallyIngested ==
    \A c \in Valid :
        ValidWithBad(c)
          ~> (/\ RawIds(c) \subseteq Ids(Rows(masterFile))
              /\ csvDir # NoFile)

\* ----------------------------------------------------------------- C22
IsUpper(c) == \E i \in 1..Len(UpperCase) : UpperCase[i] = c

\* C22: normalizar gives a text for every cell, the empty text for the
\* missing cell; its result holds no capital letter and no combining mark;
\* and applied to its own result it gives that result again.
C22_NormalizarIsIdempotentLowerUnaccented ==
    res # NoFile
    => LET out == Content(res).txt
       IN  /\ out \in Seq({out[i] : i \in 1..Len(out)})
           /\ arg = NaN => out = <<>>
           /\ \A i \in 1..Len(out) : ~IsUpper(out[i]) /\ ~Combining(out[i])
           /\ out = normalizar(arg)
           /\ normalizar(out) = out

\* "DEPÓSITO" has been normalised twice: "deposito" both times
C22_Witness ==
    /\ arg = <<"D", "E", "P", "Ó", "S", "I", "T", "O">>
    /\ res # NoFile
    /\ Content(res).veces = 2
    /\ Content(res).txt = w_deposito

\* ----------------------------------------------------------------- C28
\* C28 as stated: every row of the deposits view has the channel MODO or
\* Retail, never Otro, and the KPI counts and amounts of MODO and Retail add
\* up to the number of rows and to the amount of the whole deposits view.
C28_ChannelKpisAddUpToAllDeposits ==
    res # NoFile
    => LET cargas == Content(res).cargas
           kpi    == Content(res).resumen_kpis
       IN  /\ \A r \in cargas : r.Canal \in {"MODO", "Retail"}
           /\ kpi.recargas_modo + kpi.recargas_retail = Cardinality(cargas)
           /\ kpi.monto_modo + kpi.monto_retail = MontoOf(cargas)

\* C28, amended: every row of the deposits view has the channel MODO or
\* Retail, never Otro; the KPI amounts of MODO and Retail add up to the
\* amount of the whole view, and the KPI counts add up to the number of its
\* rows that carry an amount.
C28_ChannelKpisAddUpToDepositsWithAmount ==
    res # NoFile
    => LET cargas == Content(res).cargas
           kpi    == Content(res).resumen_kpis
       IN  /\ \A r \in cargas : r.Canal \in {"MODO", "Retail"}
           /\ kpi.recargas_modo + kpi.recargas_retail = CountOf(cargas)
           /\ kpi.monto_modo + kpi.monto_retail = MontoOf(cargas)

\* a MODO deposit of 100 and a card deposit of 250: one and one, 350 in all
C28_Witness ==
    /\ res # NoFile
    /\ Cardinality(Content(res).cargas) = 2
    /\ Content(res).resumen_kpis =
          [recargas_modo |-> 1, recargas_retail |-> 1,
           monto_modo |-> 100, monto_retail |-> 250]

\* ----------------------------------------------------------------- C29
\* the accounts with a row of the deposits view whose channel is MODO
ConCargaModo == {d \in Documentos : \E r \in arg :
                    r.doc = d /\ r.tipo = "Carga saldo desde MODO"}

\* C29: the MODO retention table has exactly one row for each account with
\* a MODO deposit and none for the others; in every row the 1-day flag
\* implies the 30-day flag and the 30-day flag implies the wagered-afterward
\* flag; and a row whose account has no wager later than its first MODO
\* deposit, its wagers at that very timestamp included, has none of the
\* three flags.
C29_RetentionRowsAndFlagOrder ==
    res # NoFile
    => LET t == Content(res).retencion_modo
       IN  /\ {row.Documento : row \in t} = ConCargaModo
           /\ \A a, b \in t : a.Documento = b.Documento => a = b
           /\ \A row \in t :
                 /\ row.Jugo_Dia_Sig => row.Jugo_Mes_Sig
                 /\ row.Jugo_Mes_Sig => row.Jugo_Posterior
                 /\ (/\ ModoTimes(row.Documento) # {}
                     /\ \A w \in WagerTimes(row.Documento) :
                           \A f \in ModoTimes(row.Documento) :
                               Ordinal(w) <= Ordinal(f))
                       => (~row.Jugo_Posterior /\ ~row.Jugo_Mes_Sig /\ ~row.Jugo_Dia_Sig)

\* account 7 made its first MODO deposit and a wager at the same timestamp,
\* account 8 none: one row, for account 7, with no flag set
C29_Witness ==
    /\ res # NoFile
    /\ arg = { [doc |-> 7, fecha |-> <<2025, 7, 7>>, tipo |-> "Carga saldo desde MODO",
                mov |-> "MODO", importe |-> 100],
               [doc |-> 7, fecha |-> <<2025, 7, 7>>, tipo |-> "Jugada",
                mov |-> "Jugada - Quini 6", importe |-> 100],
               [doc |-> 8, fecha |-> <<2025, 7, 7>>, tipo |-> "Carga saldo desde TJ",
                mov |-> "TJ", importe |-> 100] }
    /\ \E row \in Content(res).retencion_modo :
          /\ Content(res).retencion_modo = {row}
          /\ row.Documento = 7
          /\ ~row.Jugo_Posterior /\ ~row.Jugo_Mes_Sig /\ ~row.Jugo_Dia_Sig

\* ----------------------------------------------------------------- C21
\* the ids of the roster rows that have a numeric id
Registrados == {c[1] : c \in {u.Documento : u \in arg.padron.filas} \ {NoNumerico}}

\* the accounts with a row in the ledger
ConMovimientos == {r.doc : r \in arg.data}

C21_State ==
    (res # NoFile /\ Content(res).fin = "ok")
    => LET inactivos == {u.Documento : u \in Content(Content(res).salida)}
       IN  /\ inactivos \cap ConMovimientos = {}
           /\ \A d \in Registrados : d \notin ConMovimientos => d \in inactivos
           /\ inactivos = Registrados \ ConMovimientos

\* C21: the inactive set the script writes is exactly the roster accounts
\* with a numeric id that have no row in the ledger: it is disjoint from the
\* accounts with ledger activity and holds every roster account without
\* any; and the step that computes it leaves roster and ledger as they were.
C21_InactiveAreRosterMinusLedger ==
    []C21_State /\ [][res' # res => arg' = arg]_vars

\* roster 7, 8 and a row without a numeric id; the ledger has rows of 7 only:
\* the inactive set is {8}
C21_Witness ==
    /\ res # NoFile
    /\ Content(res).fin = "ok"
    /\ Registrados = {7, 8}
    /\ [Documento |-> NoNumerico] \in arg.padron.filas
    /\ ConMovimientos = {7}
    /\ Content(Content(res).salida) = {[Documento |-> 8]}

\* ----------------------------------------------------------------- C30
\* C30: the KPI 'Usuarios Inactivos (sin mov.)' is the number of roster
\* accounts that have no row in the ledger, and it is never negative.
C30_InactiveKpiCountsRosterWithoutRows ==
    (res # NoFile /\ Content(res).kpis_actividad # NoFile)
    => LET kpi == Content(Content(res).kpis_actividad)
       IN  /\ kpi.total_inactivos = kpi.total_registrados - kpi.total_activos
           /\ kpi.total_inactivos =
                 Cardinality({u \in arg.padron.filas : u.DNI \notin DocsOf(arg.data)})
           /\ kpi.total_inactivos >= 0

====
